---- MODULE Spec2Model ----
(***************************************************************************)
(* GURLScraper.py: a multi-dork search results crawler.  The model covers  *)
(* the URL cleaner, the crawl of one dork (crawl_until_last_page), the     *)
(* dork pipeline (pipeline_process_from_current_state) and the command     *)
(* loop of main.  The browser (Selenium driver) and the person sitting in  *)
(* front of it are the environment.                                        *)
(***************************************************************************)
EXTENDS Integers, Sequences, FiniteSets, TLC

(***************************************************************************)
(* Bounds of the model.                                                    *)
(***************************************************************************)
\* result pages a query has at most (the last one has no Next control)
MaxPage == 2
\* organic anchors on one result page
MaxLinks == 2
\* interruptions the environment injects in the middle of a crawl
MaxFaults == 1

(***************************************************************************)
(* Python values.                                                          *)
(***************************************************************************)
\* Python's None, as the value of an href attribute or of a cleaned href
NONE == "<None>"
\* the outcome "urlparse raised ValueError" of clean_google_href
RAISED == "<ValueError>"

EmptyDict == [k \in {} |-> 0]

\* d[k] = v in place of d.setdefault(k, v)
setdefault_overwrite(d, k, v) ==
  [x \in (DOMAIN d) \cup {k} |-> IF x = k THEN v ELSE d[x]]

\* dict.setdefault(k, v)
setdefault(d, k, v) == IF k \in DOMAIN d THEN d ELSE d @@ (k :> v)

\* d[k] = v
setitem(d, k, v) == [x \in (DOMAIN d) \cup {k} |-> IF x = k THEN v ELSE d[x]]

(***************************************************************************)
(* URL CLEANER.  urlparse and parse_qs are tabulated on a catalogue of     *)
(* hrefs; each row is what urllib.parse returns for that string.           *)
(***************************************************************************)
Hrefs ==
  { "",
    "https://a.com/",
    "https://b.org/x",
    "a.com/page",
    "https://notgoogle.example/",
    "https://maps.google.com/",
    "https://www.google.com/search?q=cats",
    "https://www.google.com/url?q=https://a.com/",
    "https://www.google.com/url?url=https://b.org/x",
    "https://www.google.com/url?q=&url=https://b.org/x",
    "https://www.google.com/url?q=",
    "https://www.google.com/url?q=https://maps.google.com/",
    "https://www.google.com/url?q=http://[bad",
    "https://translate.google.com/translate?u=https://b.org/x",
    "https://translate.google.com/translate?u=",
    "https://translate.google.com/url?q=https://a.com/",
    "http://[bad" }

\* urlparse raises ValueError("Invalid IPv6 URL")
urlparse_raises(href) == href = "http://[bad"

\* urlparse(href): netloc, path and query of the hrefs that parse
urlparse(href) ==
  CASE href = "https://a.com/" ->
         [netloc |-> "a.com", path |-> "/", query |-> ""]
    [] href = "https://b.org/x" ->
         [netloc |-> "b.org", path |-> "/x", query |-> ""]
    [] href = "a.com/page" ->
         [netloc |-> "", path |-> "a.com/page", query |-> ""]
    [] href = "https://notgoogle.example/" ->
         [netloc |-> "notgoogle.example", path |-> "/", query |-> ""]
    [] href = "https://maps.google.com/" ->
         [netloc |-> "maps.google.com", path |-> "/", query |-> ""]
    [] href = "https://www.google.com/search?q=cats" ->
         [netloc |-> "www.google.com", path |-> "/search", query |-> "q=cats"]
    [] href = "https://www.google.com/url?q=https://a.com/" ->
         [netloc |-> "www.google.com", path |-> "/url",
          query |-> "q=https://a.com/"]
    [] href = "https://www.google.com/url?url=https://b.org/x" ->
         [netloc |-> "www.google.com", path |-> "/url",
          query |-> "url=https://b.org/x"]
    [] href = "https://www.google.com/url?q=&url=https://b.org/x" ->
         [netloc |-> "www.google.com", path |-> "/url",
          query |-> "q=&url=https://b.org/x"]
    [] href = "https://www.google.com/url?q=" ->
         [netloc |-> "www.google.com", path |-> "/url", query |-> "q="]
    [] href = "https://www.google.com/url?q=https://maps.google.com/" ->
         [netloc |-> "www.google.com", path |-> "/url",
          query |-> "q=https://maps.google.com/"]
    [] href = "https://www.google.com/url?q=http://[bad" ->
         [netloc |-> "www.google.com", path |-> "/url",
          query |-> "q=http://[bad"]
    [] href = "https://translate.google.com/translate?u=https://b.org/x" ->
         [netloc |-> "translate.google.com", path |-> "/translate",
          query |-> "u=https://b.org/x"]
    [] href = "https://translate.google.com/translate?u=" ->
         [netloc |-> "translate.google.com", path |-> "/translate",
          query |-> "u="]
    [] href = "https://translate.google.com/url?q=https://a.com/" ->
         [netloc |-> "translate.google.com", path |-> "/url",
          query |-> "q=https://a.com/"]

\* parse_qs(query): the first value of each parameter the cleaner reads; a
\* parameter that is missing or blank is no key of the result (NONE here)
parse_qs(query) ==
  CASE query = "q=cats" -> [u |-> NONE, q |-> "cats", url |-> NONE]
    [] query = "q=https://a.com/" ->
         [u |-> NONE, q |-> "https://a.com/", url |-> NONE]
    [] query = "url=https://b.org/x" ->
         [u |-> NONE, q |-> NONE, url |-> "https://b.org/x"]
    [] query = "q=&url=https://b.org/x" ->
         [u |-> NONE, q |-> NONE, url |-> "https://b.org/x"]
    [] query = "q=https://maps.google.com/" ->
         [u |-> NONE, q |-> "https://maps.google.com/", url |-> NONE]
    [] query = "q=http://[bad" ->
         [u |-> NONE, q |-> "http://[bad", url |-> NONE]
    [] query = "u=https://b.org/x" ->
         [u |-> "https://b.org/x", q |-> NONE, url |-> NONE]
    [] OTHER -> [u |-> NONE, q |-> NONE, url |-> NONE]

\* domain.startswith("translate.google.")
startswith_translate(domain) == domain = "translate.google.com"

\* domain.startswith("www.google.")
startswith_www(domain) == domain = "www.google.com"

\* "google." in domain
contains_google(domain) ==
  domain \in {"www.google.com", "translate.google.com", "maps.google.com",
              "notgoogle.example"}

clean_google_href(href) ==
  IF href = NONE \/ href = "" THEN NONE
  ELSE IF urlparse_raises(href) THEN RAISED
  ELSE LET p == urlparse(href)
           domain == p.netloc
           qs == parse_qs(p.query)
       IN  IF startswith_translate(domain) /\ qs.u # NONE THEN qs.u
           ELSE IF startswith_www(domain) /\ p.path = "/url" /\ qs.q # NONE
             THEN qs.q
           ELSE IF startswith_www(domain) /\ p.path = "/url" /\ qs.url # NONE
             THEN qs.url
           ELSE IF contains_google(domain) THEN NONE
           ELSE href


(***************************************************************************)
(* SCRAPER CORE.                                                           *)
(***************************************************************************)
\* href attributes the organic anchors of a result page carry
PageHrefs ==
  { "https://b.org/x",
    "https://www.google.com/url?q=https://a.com/",
    "https://www.google.com/search?q=cats" }

\* the anchors find_elements returns on a page that has organic results
PageElements ==
  UNION { [1..n -> PageHrefs] : n \in 1..MaxLinks }

\* what the browser shows: a result page of a query, the challenge that
\* stands in for it, or something else (no search box, an error page)
BlankPage == [kind |-> "blank", q |-> "", page |-> 1]

Browser ==
  [kind : {"results", "captcha"}, q : {"site:a.com", "inurl:admin"},
   page : 1..MaxPage] \cup {BlankPage}

has_organic_results(b) == b.kind = "results"

\* WebDriverWait(...).until(...) on a page that does not change while it is
\* polled; on timeout the except branch asks has_organic_results once more
wait_for_results_or_captcha(b) == has_organic_results(b)

RECURSIVE scrape_current_page(_)
\* the cleaned hrefs of the anchors, in DOM order, None dropped; RAISED as
\* soon as clean_google_href raises
scrape_current_page(elements) ==
  IF elements = << >> THEN << >>
  ELSE LET clean == clean_google_href(Head(elements))
           rest == scrape_current_page(Tail(elements))
       IN  IF clean = RAISED \/ rest = <<RAISED>> THEN <<RAISED>>
           ELSE IF clean # NONE THEN <<clean>> \o rest
           ELSE rest

scrape_raises(elements) == scrape_current_page(elements) = <<RAISED>>

\* merge_url with the mapping updated only for a globally new URL
merge_url_new_only(st, u, dork) ==
  [ global_seen |-> st.global_seen \cup {u},
    new_global |-> IF u \notin st.global_seen THEN st.new_global + 1
                   ELSE st.new_global,
    per_dork_seen |-> st.per_dork_seen \cup {u},
    per_dork_urls |-> IF u \notin st.per_dork_seen
                      THEN Append(st.per_dork_urls, u)
                      ELSE st.per_dork_urls,
    new_for_this_dork |-> IF u \notin st.per_dork_seen
                          THEN st.new_for_this_dork + 1
                          ELSE st.new_for_this_dork,
    url_to_dorks |-> IF u \notin st.global_seen
                     THEN setitem(st.url_to_dorks, u, {dork})
                     ELSE st.url_to_dorks ]

\* merge_url with the global test taken on the per-dork set
merge_url_dork_test(st, u, dork) ==
  [ global_seen |-> IF u \notin st.per_dork_seen
                    THEN st.global_seen \cup {u} ELSE st.global_seen,
    new_global |-> IF u \notin st.per_dork_seen THEN st.new_global + 1
                   ELSE st.new_global,
    per_dork_seen |-> st.per_dork_seen \cup {u},
    per_dork_urls |-> IF u \notin st.per_dork_seen
                      THEN Append(st.per_dork_urls, u)
                      ELSE st.per_dork_urls,
    new_for_this_dork |-> IF u \notin st.per_dork_seen
                          THEN st.new_for_this_dork + 1
                          ELSE st.new_for_this_dork,
    url_to_dorks |-> setitem(st.url_to_dorks, u,
                             setdefault(st.url_to_dorks, u, {})[u] \cup {dork}) ]

\* merge_url with the per-dork list appended to without the per-dork test
merge_url_append_always(st, u, dork) ==
  [ global_seen |-> st.global_seen \cup {u},
    new_global |-> IF u \notin st.global_seen THEN st.new_global + 1
                   ELSE st.new_global,
    per_dork_seen |-> st.per_dork_seen \cup {u},
    per_dork_urls |-> Append(st.per_dork_urls, u),
    new_for_this_dork |-> st.new_for_this_dork + 1,
    url_to_dorks |-> setitem(st.url_to_dorks, u,
                             setdefault(st.url_to_dorks, u, {})[u] \cup {dork}) ]

\* one turn of the loop "for u in page_urls" of crawl_until_last_page
merge_url(st, u, dork) ==
  [ global_seen |-> st.global_seen \cup {u},
    new_global |-> IF u \notin st.global_seen THEN st.new_global + 1
                   ELSE st.new_global,
    per_dork_seen |-> st.per_dork_seen \cup {u},
    per_dork_urls |-> IF u \notin st.per_dork_seen
                      THEN Append(st.per_dork_urls, u)
                      ELSE st.per_dork_urls,
    new_for_this_dork |-> IF u \notin st.per_dork_seen
                          THEN st.new_for_this_dork + 1
                          ELSE st.new_for_this_dork,
    url_to_dorks |-> setitem(st.url_to_dorks, u,
                             setdefault(st.url_to_dorks, u, {})[u] \cup {dork}) ]

RECURSIVE merge_page(_, _, _)
\* the whole loop over page_urls
merge_page(st, page_urls, dork) ==
  IF page_urls = << >> THEN st
  ELSE merge_page(merge_url(st, Head(page_urls), dork), Tail(page_urls), dork)

(***************************************************************************)
(* PIPELINE STATE.                                                         *)
(***************************************************************************)
\* the dorks.txt files of the model: two dorks with a comment line between
\* them, the same dork on two lines with a blank line between them, and a
\* single dork with blanks around it
Files ==
  { <<"site:a.com", "# comment", "  inurl:admin ">>,
    <<"site:a.com", "", "site:a.com">>,
    <<"  inurl:admin ">> }

\* line.strip()
strip(line) == IF line = "  inurl:admin " THEN "inurl:admin" ELSE line

\* q.startswith("#")
startswith_hash(q) == q = "# comment"

RECURSIVE load_dorks(_)
load_dorks(file) ==
  IF file = << >> THEN << >>
  ELSE LET q == strip(Head(file))
       IN  IF q = "" \/ startswith_hash(q) THEN load_dorks(Tail(file))
           ELSE <<q>> \o load_dorks(Tail(file))

VARIABLES
  \* PipelineState
  dorks, index, last_status,
  \* the collections main owns
  global_seen, per_dork_urls, per_dork_seen, url_to_dorks, dork_page_offset,
  \* control: where main is, the command read last, and the locals of
  \* pipeline_process_from_current_state and crawl_until_last_page
  pc, cmd, mode, pages, abs_page,
  \* environment: the browser window, and the interruptions injected so far
  browser, faults,
  \* history, kept for the properties only: the URLs handed to the merge
  \* loop and the sum of new_global since the last clear; per dork the last
  \* absolute page number reported, the sum of the page counts the crawls
  \* returned and the result pages of the browser that were crawled; the
  \* crawls that returned "done"; and whether a clear has been followed by
  \* its first reported page
  merged, new_global_total, last_reported, returned_pages, crawled,
  done_returns, after_clear,
  norm

prog == <<dorks, index, last_status, global_seen, per_dork_urls,
          per_dork_seen, url_to_dorks, dork_page_offset>>
ctl == <<pc, cmd, mode, pages, abs_page>>
env == <<browser, faults>>
hist == <<merged, new_global_total, last_reported, returned_pages, crawled,
          done_returns, after_clear>>
vars == <<prog, ctl, env, hist, norm>>

\* no href has been handed to the cleaner on its own
NormIdle == [input |-> << >>, out |-> << >>, again |-> << >>]

\* state.dorks[state.index] (Python counts from 0)
Dork == dorks[index + 1]

\* get(d, k, 0) for the history maps
at(d, k) == IF k \in DOMAIN d THEN d[k] ELSE 0
pagesAt(d, k) == IF k \in DOMAIN d THEN d[k] ELSE {}

(***************************************************************************)
(* main, up to the first prompt.                                           *)
(***************************************************************************)
Start ==
  /\ \E file \in Files :
       /\ dorks = load_dorks(file)
       /\ dorks # << >>
  /\ index = 0
  /\ last_status = "idle"
  /\ global_seen = {}
  /\ per_dork_urls = EmptyDict
  /\ per_dork_seen = EmptyDict
  /\ url_to_dorks = EmptyDict
  /\ dork_page_offset = EmptyDict
  /\ pc = "prompt"
  /\ cmd = ""
  /\ mode = ""
  /\ pages = 0
  /\ abs_page = 0
  /\ browser = BlankPage
  /\ faults = 0
  /\ merged = {}
  /\ new_global_total = 0
  /\ last_reported = EmptyDict
  /\ returned_pages = EmptyDict
  /\ crawled = EmptyDict
  /\ done_returns = 0
  /\ after_clear = "no"

Init ==
  /\ Start
  /\ norm = NormIdle


(***************************************************************************)
(* pipeline_process_from_current_state and crawl_until_last_page.          *)
(***************************************************************************)
\* the offset updated only when the crawl returned "done"
offset_after_done_only(status, offset, n) ==
  IF status = "done" THEN offset + n ELSE offset

\* the returned page count dropped
offset_after_uncounted(status, offset, n) == offset

\* the absolute page number added in place of the page count
offset_after_absolute(status, offset, n) == offset + (offset + n)

\* dork_page_offset[dork] += pages, whatever the status of the crawl
offset_after(status, offset, n) == offset + n

\* the index advanced by two
index_after_skip(i) == i + 2

\* state.index += 1
index_after(i) == i + 1

\* the mode left as it is when a dork is finished
mode_after_done_kept(m) == m

\* mode = "run", behind state.index += 1
mode_after_done(m) == "run"

\* the status left as the pipeline set it on entry
end_status_forgotten == "running"

\* state.last_status = "done", behind the loop
end_status == "done"

\* abs_page = page_offset + pages
abs_page_of(page_offset, n) == page_offset + n

\* the three setdefault calls at the head of the loop body
LoopDefaults ==
  /\ per_dork_urls' = setdefault(per_dork_urls, Dork, << >>)
  /\ per_dork_seen' = setdefault(per_dork_seen, Dork, {})
  /\ dork_page_offset' = setdefault(dork_page_offset, Dork, 0)

\* the locals of the pipeline die when it returns to the prompt of main
BackToPrompt ==
  /\ pc' = "prompt"
  /\ mode' = ""
  /\ pages' = 0
  /\ abs_page' = 0

\* the "first page after a clear" mark lasts for one state
AfterStep == IF after_clear = "first" THEN "no" ELSE after_clear

\* the process is gone (main returned, or an exception left it): nothing of
\* its memory is left to look at, only how it ended and the status it had
Gone(how) ==
  /\ pc' = how
  /\ index' = 0
  /\ global_seen' = {}
  /\ per_dork_urls' = EmptyDict
  /\ per_dork_seen' = EmptyDict
  /\ url_to_dorks' = EmptyDict
  /\ dork_page_offset' = EmptyDict
  /\ cmd' = ""
  /\ mode' = ""
  /\ pages' = 0
  /\ abs_page' = 0
  /\ browser' = BlankPage
  /\ faults' = 0
  /\ merged' = {}
  /\ new_global_total' = 0
  /\ last_reported' = EmptyDict
  /\ returned_pages' = EmptyDict
  /\ crawled' = EmptyDict
  /\ done_returns' = 0
  /\ after_clear' = "no"
  /\ UNCHANGED <<dorks, last_status>>

\* an exception leaves the pipeline and main: the process ends with a
\* traceback, last_status still "running"
Crash == Gone("crashed")

\* state.last_status = "running", in front of the loop
pipeline_enter(m) ==
  /\ last_status' = "running"
  /\ mode' = m
  /\ pc' = "loop"
  /\ UNCHANGED <<dorks, index, global_seen, per_dork_urls, per_dork_seen,
                 url_to_dorks, dork_page_offset, pages, abs_page, env, hist>>

\* mode "run": perform_search loads the first result page of the dork
SearchOk ==
  /\ pc = "loop" /\ index < Len(dorks) /\ mode = "run"
  /\ LoopDefaults
  /\ browser' = [kind |-> "results", q |-> Dork, page |-> 1]
  /\ pc' = "crawl"
  /\ pages' = 0
  /\ UNCHANGED <<dorks, index, last_status, global_seen, url_to_dorks,
                 cmd, mode, abs_page, faults, hist>>
  /\ UNCHANGED norm

\* mode "run": perform_search returns False (no search box, or no organic
\* results within the wait): status captcha, index as it was
SearchFails ==
  /\ pc = "loop" /\ index < Len(dorks) /\ mode = "run"
  /\ LoopDefaults
  /\ browser' \in {[kind |-> "captcha", q |-> Dork, page |-> 1], BlankPage}
  /\ last_status' = "captcha"
  /\ BackToPrompt
  /\ UNCHANGED <<dorks, index, global_seen, url_to_dorks, cmd, faults, hist>>
  /\ UNCHANGED norm

\* mode "run": driver.get, outside the try of perform_search, raises; or
\* find_elements raises in the except branch of the wait
SearchRaises ==
  /\ pc = "loop" /\ index < Len(dorks) /\ mode = "run"
  /\ Crash
  /\ UNCHANGED norm

\* mode "resume": organic results are there, no query is submitted
WaitOk ==
  /\ pc = "loop" /\ index < Len(dorks) /\ mode = "resume"
  /\ wait_for_results_or_captcha(browser)
  /\ LoopDefaults
  /\ pc' = "crawl"
  /\ pages' = 0
  /\ UNCHANGED <<dorks, index, last_status, global_seen, url_to_dorks,
                 cmd, mode, abs_page, env, hist>>
  /\ UNCHANGED norm

\* mode "resume": still no organic results
WaitFails ==
  /\ pc = "loop" /\ index < Len(dorks) /\ mode = "resume"
  /\ ~wait_for_results_or_captcha(browser)
  /\ LoopDefaults
  /\ last_status' = "captcha"
  /\ BackToPrompt
  /\ UNCHANGED <<dorks, index, global_seen, url_to_dorks, cmd, env, hist>>
  /\ UNCHANGED norm

\* mode "resume": find_elements raises in the except branch of the wait
WaitRaises ==
  /\ pc = "loop" /\ index < Len(dorks) /\ mode = "resume"
  /\ Crash
  /\ UNCHANGED norm

\* the crawl returns ("captcha", pages): no organic results at the head of
\* the while loop
CrawlCaptcha ==
  /\ pc = "crawl"
  /\ ~has_organic_results(browser)
  /\ dork_page_offset' =
       [dork_page_offset EXCEPT
          ![Dork] = offset_after("captcha", dork_page_offset[Dork], pages)]
  /\ returned_pages' = setitem(returned_pages, Dork,
                               at(returned_pages, Dork) + pages)
  /\ last_status' = "captcha"
  /\ BackToPrompt
  /\ UNCHANGED <<dorks, index, global_seen, per_dork_urls, per_dork_seen,
                 url_to_dorks, cmd, env, merged, new_global_total,
                 last_reported, crawled, done_returns, after_clear>>
  /\ UNCHANGED norm

\* has_organic_results raises (find_elements is in no try)
OrganicRaises ==
  /\ pc = "crawl"
  /\ Crash
  /\ UNCHANGED norm

\* one page: counted, scraped, merged and reported
CrawlPage ==
  /\ pc = "crawl"
  /\ has_organic_results(browser)
  /\ \E elements \in PageElements :
       /\ ~scrape_raises(elements)
       /\ LET page_urls == scrape_current_page(elements)
              st == merge_page(
                      [ global_seen |-> global_seen,
                        new_global |-> 0,
                        per_dork_seen |-> per_dork_seen[Dork],
                        per_dork_urls |-> per_dork_urls[Dork],
                        new_for_this_dork |-> 0,
                        url_to_dorks |-> url_to_dorks ],
                      page_urls, Dork)
          IN  /\ global_seen' = st.global_seen
              /\ per_dork_seen' =
                   [per_dork_seen EXCEPT ![Dork] = st.per_dork_seen]
              /\ per_dork_urls' =
                   [per_dork_urls EXCEPT ![Dork] = st.per_dork_urls]
              /\ url_to_dorks' = st.url_to_dorks
              /\ merged' = merged \cup {page_urls[i] : i \in DOMAIN page_urls}
              /\ new_global_total' = new_global_total + st.new_global
  /\ pages' = pages + 1
  /\ abs_page' = abs_page_of(dork_page_offset[Dork], pages + 1)
  /\ last_reported' = setitem(last_reported, Dork, abs_page')
  /\ crawled' = setitem(crawled, Dork,
                        pagesAt(crawled, Dork) \cup {browser.page})
  /\ after_clear' = IF after_clear = "cleared" THEN "first" ELSE "no"
  /\ pc' = "next"
  /\ UNCHANGED <<dorks, index, last_status, dork_page_offset, cmd, mode,
                 env, returned_pages, done_returns>>
  /\ UNCHANGED norm

\* the page is counted, then get_attribute raises on an anchor gone stale
\* or clean_google_href raises on an href that does not parse
ScrapeRaises ==
  /\ pc = "crawl"
  /\ has_organic_results(browser)
  /\ Crash
  /\ UNCHANGED norm

\* the crawl returns ("done", pages): no Next control; the index advances
\* and the next dork starts with a search
NoNext ==
  /\ pc = "next"
  /\ dork_page_offset' =
       [dork_page_offset EXCEPT
          ![Dork] = offset_after("done", dork_page_offset[Dork], pages)]
  /\ returned_pages' = setitem(returned_pages, Dork,
                               at(returned_pages, Dork) + pages)
  /\ index' = index_after(index)
  /\ done_returns' = done_returns + 1
  /\ mode' = mode_after_done(mode)
  /\ pc' = "loop"
  /\ pages' = 0
  /\ abs_page' = 0
  /\ after_clear' = AfterStep
  /\ UNCHANGED <<dorks, last_status, global_seen, per_dork_urls,
                 per_dork_seen, url_to_dorks, cmd, env, merged,
                 new_global_total, last_reported, crawled>>
  /\ UNCHANGED norm

\* the crawl returns ("captcha", pages): the click on Next raises
ClickFails ==
  /\ pc = "next"
  /\ faults < MaxFaults
  /\ faults' = faults + 1
  /\ dork_page_offset' =
       [dork_page_offset EXCEPT
          ![Dork] = offset_after("captcha", dork_page_offset[Dork], pages)]
  /\ returned_pages' = setitem(returned_pages, Dork,
                               at(returned_pages, Dork) + pages)
  /\ last_status' = "captcha"
  /\ BackToPrompt
  /\ after_clear' = AfterStep
  /\ UNCHANGED <<dorks, index, global_seen, per_dork_urls, per_dork_seen,
                 url_to_dorks, cmd, browser, merged, new_global_total,
                 last_reported, crawled, done_returns>>
  /\ UNCHANGED norm

\* the click succeeds and the browser loads the next result page
ClickOk ==
  /\ pc = "next"
  /\ browser.page < MaxPage
  /\ browser' = [browser EXCEPT !.page = @ + 1]
  /\ pc' = "crawl"
  /\ after_clear' = AfterStep
  /\ UNCHANGED <<prog, cmd, mode, pages, abs_page, faults, merged,
                 new_global_total, last_reported, returned_pages, crawled,
                 done_returns>>
  /\ UNCHANGED norm

\* the while loop of the pipeline ends: every dork is processed
LoopExit ==
  /\ pc = "loop" /\ ~(index < Len(dorks))
  /\ last_status' = end_status
  /\ BackToPrompt
  /\ UNCHANGED <<dorks, index, global_seen, per_dork_urls, per_dork_seen,
                 url_to_dorks, dork_page_offset, cmd, env, hist>>
  /\ UNCHANGED norm

(***************************************************************************)
(* The command loop of main.                                               *)
(***************************************************************************)
Run ==
  /\ pc = "prompt"
  /\ cmd' = "run"
  /\ pipeline_enter("run")
  /\ UNCHANGED norm

\* resume without the test of the last status
Resume_unguarded ==
  /\ pc = "prompt"
  /\ cmd' = "resume"
  /\ pipeline_enter("resume")
  /\ UNCHANGED norm

Resume ==
  /\ pc = "prompt"
  /\ last_status = "captcha"
  /\ cmd' = "resume"
  /\ pipeline_enter("resume")
  /\ UNCHANGED norm

\* resume when the last status is not captcha: a message, nothing else
ResumeRefused ==
  /\ pc = "prompt"
  /\ last_status # "captcha"
  /\ cmd' = "resume"
  /\ UNCHANGED <<prog, pc, mode, pages, abs_page, env, hist>>
  /\ UNCHANGED norm

Status ==
  /\ pc = "prompt"
  /\ cmd' = "status"
  /\ UNCHANGED <<prog, pc, mode, pages, abs_page, env, hist>>
  /\ UNCHANGED norm

\* save that empties global_seen while it writes it out
Save_draining ==
  /\ pc = "prompt"
  /\ cmd' = "save"
  /\ global_seen' = {}
  /\ UNCHANGED <<dorks, index, last_status, per_dork_urls, per_dork_seen,
                 url_to_dorks, dork_page_offset, pc, mode, pages, abs_page,
                 env, hist>>
  /\ UNCHANGED norm

Save ==
  /\ pc = "prompt"
  /\ cmd' = "save"
  /\ UNCHANGED <<prog, pc, mode, pages, abs_page, env, hist>>
  /\ UNCHANGED norm

\* clear without dork_page_offset.clear()
clear_collections_keep_offsets ==
  /\ global_seen' = {}
  /\ per_dork_urls' = EmptyDict
  /\ per_dork_seen' = EmptyDict
  /\ url_to_dorks' = EmptyDict
  /\ dork_page_offset' = dork_page_offset
  /\ index' = 0
  /\ last_status' = "idle"

\* clear without state.index = 0
clear_collections_keep_index ==
  /\ global_seen' = {}
  /\ per_dork_urls' = EmptyDict
  /\ per_dork_seen' = EmptyDict
  /\ url_to_dorks' = EmptyDict
  /\ dork_page_offset' = EmptyDict
  /\ index' = index
  /\ last_status' = "idle"

\* the five clear() calls, index = 0 and last_status = "idle"
clear_collections ==
  /\ global_seen' = {}
  /\ per_dork_urls' = EmptyDict
  /\ per_dork_seen' = EmptyDict
  /\ url_to_dorks' = EmptyDict
  /\ dork_page_offset' = EmptyDict
  /\ index' = 0
  /\ last_status' = "idle"

Clear ==
  /\ pc = "prompt"
  /\ cmd' = "clear"
  /\ clear_collections
  /\ merged' = {}
  /\ new_global_total' = 0
  /\ last_reported' = EmptyDict
  /\ returned_pages' = EmptyDict
  /\ crawled' = EmptyDict
  /\ done_returns' = 0
  /\ after_clear' = "cleared"
  /\ UNCHANGED <<dorks, pc, mode, pages, abs_page, env>>
  /\ UNCHANGED norm

Exit ==
  /\ pc = "prompt"
  /\ Gone("exited")
  /\ UNCHANGED norm

(***************************************************************************)
(* The environment.                                                        *)
(***************************************************************************)
\* the search engine replaces the result page by a challenge before the
\* crawl looks at it
Blocked ==
  /\ pc = "crawl"
  /\ browser.kind = "results"
  /\ faults < MaxFaults
  /\ faults' = faults + 1
  /\ browser' = [browser EXCEPT !.kind = "captcha"]
  /\ UNCHANGED <<prog, ctl, hist>>
  /\ UNCHANGED norm

\* the person solves the challenge; the browser shows the page it stood for
HumanSolves ==
  /\ pc = "prompt"
  /\ browser.kind = "captcha"
  /\ browser' = [browser EXCEPT !.kind = "results"]
  /\ UNCHANGED <<prog, ctl, faults, hist>>
  /\ UNCHANGED norm

Next ==
  \/ Run
  \/ Resume
  \/ ResumeRefused
  \/ Status
  \/ Save
  \/ Clear
  \/ Exit
  \/ SearchOk
  \/ SearchFails
  \/ SearchRaises
  \/ WaitOk
  \/ WaitFails
  \/ WaitRaises
  \/ CrawlCaptcha
  \/ OrganicRaises
  \/ CrawlPage
  \/ ScrapeRaises
  \/ NoNext
  \/ ClickFails
  \/ ClickOk
  \/ LoopExit
  \/ Blocked
  \/ HumanSolves

Spec == Init /\ [][Next]_vars

(***************************************************************************)
(* The cleaner on its own: hrefs of the catalogue are handed to            *)
(* clean_google_href one after the other, as scrape_current_page does, and *)
(* what it returns is handed to it a second time.                          *)
(***************************************************************************)
\* the attribute values of the elements of one page: an href or None
NormInputs ==
  UNION { [1..n -> Hrefs \cup {NONE}] : n \in 1..MaxLinks }

NormInit ==
  /\ Start
  /\ \E input \in NormInputs :
       norm = [input |-> input, out |-> << >>, again |-> << >>]

\* clean = clean_google_href(raw) for the next element
NormClean ==
  /\ Len(norm.out) < Len(norm.input)
  /\ norm' = [norm EXCEPT
                !.out = Append(@, clean_google_href(
                                    norm.input[Len(norm.out) + 1]))]
  /\ UNCHANGED <<prog, ctl, env, hist>>

\* clean_google_href(clean) for the next result; a call that raised has
\* returned nothing that could be handed on
NormAgain ==
  /\ Len(norm.again) < Len(norm.out)
  /\ LET clean == norm.out[Len(norm.again) + 1]
     IN  norm' = [norm EXCEPT
                    !.again = Append(@, IF clean = RAISED THEN RAISED
                                        ELSE clean_google_href(clean))]
  /\ UNCHANGED <<prog, ctl, env, hist>>

\* a link the cleaner unwraps: a translate host with a non-empty u, or the
\* www host at /url with a non-empty q or url
IsRedirectForm(x) ==
  /\ x \notin {NONE, ""}
  /\ ~urlparse_raises(x)
  /\ LET p == urlparse(x)
         qs == parse_qs(p.query)
     IN  \/ startswith_translate(p.netloc) /\ qs.u \notin {NONE, ""}
         \/ /\ startswith_www(p.netloc) /\ p.path = "/url"
            /\ (qs.q \notin {NONE, ""} \/ qs.url \notin {NONE, ""})

NormNext ==
  \/ NormClean
  \/ NormAgain

NormSpec == NormInit /\ [][NormNext]_vars

\* the process has neither returned from main nor died
Alive == pc \notin {"crashed", "exited"}

\* the elements of a Python list
Elems(s) == {s[i] : i \in DOMAIN s}

\* the dork texts whose position the index has moved past
Finished(d) == \E i \in 1..index : dorks[i] = d

TypeOK ==
  /\ index \in 0..Len(dorks)
  /\ last_status \in {"idle", "running", "captcha", "done"}
  /\ pc \in {"prompt", "loop", "crawl", "next", "crashed", "exited"}
  /\ browser \in Browser
  /\ DOMAIN per_dork_urls = DOMAIN per_dork_seen
  /\ DOMAIN per_dork_urls = DOMAIN dork_page_offset

(***************************************************************************)
(* Properties.                                                             *)
(***************************************************************************)

\* C1  Resume correctness.  Every page a crawl reports carries the number
\* that follows the last number reported for that dork (so a segment resumed
\* after k counted pages starts at k+1, nothing repeated, nothing skipped);
\* between commands the offset of every dork is the sum of the page counts
\* its crawls returned and the last number reported for it; and so it is at
\* the moment the dork finishes.
C1_ResumeCorrectness ==
  /\ [](pc = "prompt" =>
          \A d \in DOMAIN dork_page_offset :
             /\ dork_page_offset[d] = at(returned_pages, d)
             /\ dork_page_offset[d] = at(last_reported, d))
  /\ [][ /\ pc' = "next" /\ pc = "crawl" =>
              abs_page' = at(last_reported, Dork) + 1
         /\ index' = index + 1 =>
              /\ dork_page_offset'[Dork] = at(returned_pages', Dork)
              /\ dork_page_offset'[Dork] = at(last_reported, Dork) ]_vars

\* a resumed segment reports its first page, as page 2, after a crawl that
\* was interrupted by a challenge in place of page 2
C1_Witness ==
  /\ pc = "next" /\ mode = "resume" /\ cmd = "resume"
  /\ pages = 1 /\ abs_page = 2
  /\ browser.page = 2
  /\ dork_page_offset[Dork] = 1

\* C2  After an interruption, run or resume picks up where the pipeline
\* stopped: between commands the offset of a dork is the number of distinct
\* result pages crawled for it (no page is counted twice).  Stated for the
\* dork lists without a repeated dork.
C2_NoPageCountedTwice ==
  (pc = "prompt" /\ \A i, j \in DOMAIN dorks : dorks[i] = dorks[j] => i = j)
    => \A d \in DOMAIN dork_page_offset :
          dork_page_offset[d] = Cardinality(pagesAt(crawled, d))

\* C3  Sequential advancement.  The index is the number of crawls that
\* returned "done" since the start or the last clear; while the process
\* lives it changes by +1, in the step of such a return, or goes to 0 in a
\* clear.
C3_SequentialAdvancement ==
  /\ [](Alive => index = done_returns)
  /\ [][ (Alive' /\ index' # index) =>
            \/ index' = index + 1 /\ done_returns' = done_returns + 1
            \/ Clear /\ index' = 0 ]_vars

\* the index has advanced twice, the second time in a resumed pipeline
C3_Witness ==
  /\ pc = "prompt" /\ cmd = "resume"
  /\ index = 2 /\ done_returns = 2

\* C4  When the pipeline returns to the prompt the status is captcha or
\* done; it is done exactly when the index is the number of dorks; when it
\* is captcha the returning step left the index alone, and so did every step
\* since the head of the loop body (the index changes only in a step that
\* leads to the head of the loop, or in a clear).
C4_ReturnStatus ==
  /\ [][ (pc # "prompt" /\ pc' = "prompt") =>
            /\ last_status' \in {"captcha", "done"}
            /\ last_status' = "done" <=> index' = Len(dorks)
            /\ last_status' = "captcha" => index' = index ]_vars
  /\ [][ (Alive' /\ index' # index) => (pc' = "loop" \/ Clear) ]_vars
  /\ [](pc = "prompt" => last_status # "running")

\* the pipeline was interrupted at the second dork: status captcha, the
\* index still at that dork
C4_Witness ==
  /\ pc = "prompt" /\ last_status = "captcha"
  /\ index = 1 /\ Len(dorks) = 2
  /\ dork_page_offset[Dork] = 1

\* C5  Mapping completeness.  Every URL of GlobalSeen is a key of
\* UrlToDorks, its set of dorks is not empty and is the set of the dorks
\* whose PerDorkUrls holds the URL; UrlToDorks has no other key.
C5_MappingCompleteness ==
  /\ \A u \in global_seen :
       /\ u \in DOMAIN url_to_dorks
       /\ url_to_dorks[u] # {}
       /\ url_to_dorks[u] =
            {d \in DOMAIN per_dork_urls : u \in Elems(per_dork_urls[d])}
  /\ DOMAIN url_to_dorks \subseteq global_seen

\* a URL found by two dorks
C5_Witness ==
  \E u \in global_seen : Cardinality(url_to_dorks[u]) = 2

\* C6  Dedup totality.  GlobalSeen is the set of the URLs handed to the
\* merge loop since the start or the last clear, and the new-global counts
\* add up to its size (each URL is counted as new once).
C6_DedupTotality ==
  /\ global_seen = merged
  /\ new_global_total = Cardinality(global_seen)

\* two URLs seen, one of them by two dorks (so it was merged twice)
C6_Witness ==
  /\ Cardinality(global_seen) = 2
  /\ new_global_total = 2
  /\ \E u \in global_seen : Cardinality(url_to_dorks[u]) = 2

\* C7  Per-dork no-duplicate.  PerDorkUrls[d] repeats no URL, is as long as
\* PerDorkSeen[d] is large, and holds the URLs of PerDorkSeen[d].
C7_PerDorkNoDuplicate ==
  \A d \in DOMAIN per_dork_urls :
     /\ \A i, j \in DOMAIN per_dork_urls[d] :
           per_dork_urls[d][i] = per_dork_urls[d][j] => i = j
     /\ Len(per_dork_urls[d]) = Cardinality(per_dork_seen[d])
     /\ Elems(per_dork_urls[d]) = per_dork_seen[d]

\* after an interruption a result page was extracted a second time, and the
\* dork's list holds two URLs
C7_Witness ==
  \E d \in DOMAIN per_dork_urls :
     /\ dork_page_offset[d] > Cardinality(pagesAt(crawled, d))
     /\ Len(per_dork_urls[d]) = 2
     /\ faults = 1

\* C8  Once the index has moved past a dork, its offset does not change
\* until a clear (or the end of the process), whatever the dork list.
C8_FinishedOffsetFrozen ==
  [][ \A d \in DOMAIN dork_page_offset :
        (Finished(d) /\ Alive' /\ ~Clear) =>
           (d \in DOMAIN dork_page_offset'
              /\ dork_page_offset'[d] = dork_page_offset[d]) ]_vars

\* C9  No failure of the browser is fatal: no error leaves the pipeline,
\* and between commands the status is not running.
C9_NoFatalFailure ==
  /\ pc # "crashed"
  /\ pc = "prompt" => last_status # "running"

\* C10  After the clear command the five collections are empty, the index
\* is 0 and the status idle; the dork list never changes; and the first page
\* reported after a clear is page 1 of the first dork.
C10_Clear ==
  /\ []((pc = "prompt" /\ cmd = "clear") =>
          /\ global_seen = {}
          /\ DOMAIN per_dork_urls = {}
          /\ DOMAIN per_dork_seen = {}
          /\ DOMAIN url_to_dorks = {}
          /\ DOMAIN dork_page_offset = {}
          /\ index = 0
          /\ last_status = "idle")
  /\ [](after_clear = "first" =>
          /\ index = 0
          /\ pages = 1
          /\ abs_page = 1)
  /\ [][dorks' = dorks]_vars

\* the first page after a clear is reported, by a run, with a fault of the
\* environment behind it
C10_Witness ==
  /\ after_clear = "first"
  /\ cmd = "run"
  /\ faults = 1
  /\ browser.page = 1

\* the positions of the pipeline between its entry and its return
InPipeline == pc \in {"loop", "crawl", "next"}

\* C11  The resume command does nothing unless the last status is captcha:
\* the pipeline is entered in mode resume from status captcha only, and a
\* step of the program that reads "resume" in another status leaves the index, the status,
\* the collections and the browser as they are and stays at the prompt.
C11_ResumeNoOp ==
  /\ [][ (pc = "prompt" /\ pc' = "loop" /\ mode' = "resume") =>
            last_status = "captcha" ]_vars
  /\ [][ (pc = "prompt" /\ cmd' = "resume" /\ last_status # "captcha"
            /\ Alive' /\ ~HumanSolves) =>
            (pc' = "prompt" /\ UNCHANGED <<prog, env>>) ]_vars

\* resume was typed while the status was idle, after pages had been crawled
\* and cleared
C11_Witness ==
  /\ pc = "prompt" /\ cmd = "resume"
  /\ last_status = "idle"
  /\ browser.kind = "results"

\* C12  The mode on entry is the command; the mode is "run" as soon as a
\* dork is finished and does not change otherwise while the pipeline runs;
\* so a run submits a query for every dork, and a resume submits none for
\* the dork it starts with and one for every dork after it.  At the head of
\* the loop body, mode resume leaves the browser where it is (no query is
\* submitted) and mode run loads page 1 of the dork's results or fails.
C12_SubmissionPerDork ==
  /\ [][ (pc = "prompt" /\ pc' = "loop") =>
            (mode' = cmd' /\ cmd' \in {"run", "resume"}) ]_vars
  /\ [][ (Alive' /\ index' = index + 1) => mode' = "run" ]_vars
  /\ [][ (InPipeline /\ InPipeline' /\ index' = index) => mode' = mode ]_vars
  /\ [][ (pc = "loop" /\ index < Len(dorks) /\ Alive') =>
            IF mode = "resume" THEN browser' = browser
            ELSE pc' = "crawl" =>
                   browser' = [kind |-> "results", q |-> Dork, page |-> 1]
       ]_vars
  /\ [](InPipeline /\ cmd = "run" => mode = "run")

\* in a resumed pipeline the second dork starts with a submitted query
C12_Witness ==
  /\ pc = "crawl" /\ cmd = "resume" /\ mode = "run"
  /\ index = 1 /\ pages = 0
  /\ browser = [kind |-> "results", q |-> Dork, page |-> 1]

\* C13  Between resets the collections only grow: in every step that is not
\* a clear (or the end of the process) GlobalSeen keeps its URLs, every
\* UrlToDorks[u] keeps its dorks, every PerDorkUrls[d] stays a prefix of
\* what it becomes, and no DorkPageOffset[d] decreases.
C13_GrowOnly ==
  [][ (Alive' /\ ~Clear) =>
        /\ global_seen \subseteq global_seen'
        /\ \A u \in DOMAIN url_to_dorks :
              /\ u \in DOMAIN url_to_dorks'
              /\ url_to_dorks[u] \subseteq url_to_dorks'[u]
        /\ \A d \in DOMAIN per_dork_urls :
              /\ d \in DOMAIN per_dork_urls'
              /\ Len(per_dork_urls[d]) <= Len(per_dork_urls'[d])
              /\ SubSeq(per_dork_urls'[d], 1, Len(per_dork_urls[d]))
                   = per_dork_urls[d]
        /\ \A d \in DOMAIN dork_page_offset :
              /\ d \in DOMAIN dork_page_offset'
              /\ dork_page_offset'[d] >= dork_page_offset[d] ]_vars

\* a resumed crawl has put a second URL behind the first one of its dork
C13_Witness ==
  /\ pc = "next" /\ cmd = "resume" /\ mode = "resume"
  /\ Len(per_dork_urls[Dork]) = 2
  /\ dork_page_offset[Dork] = 1

\* C14  save and status are read-only: a step that reads one of the two
\* commands at the prompt leaves the collections, the index and the status
\* as they are.
C14_ReadOnly ==
  [][ (pc = "prompt" /\ cmd' \in {"save", "status"} /\ Alive') =>
        (UNCHANGED prog /\ pc' = "prompt") ]_vars

\* save was typed with two URLs collected for two dorks
C14_Witness ==
  /\ pc = "prompt" /\ cmd = "save"
  /\ Cardinality(global_seen) = 2
  /\ Cardinality(DOMAIN per_dork_urls) = 2

\* C15  The cleaner lets no exception escape: every call returns a value,
\* and an href that does not parse as a URL gives None.
C15_NoExceptionEscapes ==
  \A k \in 1..Len(norm.out) :
     /\ norm.out[k] # RAISED
     /\ urlparse_raises(norm.input[k]) => norm.out[k] = NONE

\* C16  The cleaner is idempotent on what is no redirect form: for None and
\* for every href x that the cleaner does not unwrap, cleaning x returns,
\* cleaning the result returns, and the two results are equal; None gives
\* None.
C16_Idempotent ==
  \A k \in 1..Len(norm.again) :
     LET x == norm.input[k]
     IN  /\ ~IsRedirectForm(x) =>
              /\ norm.out[k] # RAISED
              /\ norm.again[k] # RAISED
              /\ norm.again[k] = norm.out[k]
         /\ x = NONE => norm.out[k] = NONE

\* C17  A crawl ends in one of three ways, each with the count n of the
\* pages it has processed itself: ("captcha", n) when there are no organic
\* results at the head of an iteration (n = 0 at the first check), ("done",
\* n) when there is no Next control, and ("captcha", n) with the page just
\* processed counted in when the click fails.  n starts at 0 whatever the
\* offset, grows by one per processed page, and is what the offset grows by
\* at the return; the URLs of a page are in the collections when the Next
\* control is looked up.
C17_CrawlReturn ==
  /\ [][ (pc = "loop" /\ pc' = "crawl") => pages' = 0 ]_vars
  /\ [][ (pc = "crawl" /\ pc' = "next") =>
            /\ has_organic_results(browser)
            /\ pages' = pages + 1
            /\ merged' \subseteq global_seen'
            /\ \A u \in merged' \ merged : Dork \in url_to_dorks'[u] ]_vars
  /\ [][ (pc = "next" /\ pc' = "crawl") => pages' = pages ]_vars
  /\ [][ (pc = "crawl" /\ pc' = "prompt") =>
            /\ ~has_organic_results(browser)
            /\ last_status' = "captcha"
            /\ index' = index
            /\ dork_page_offset'[Dork] = dork_page_offset[Dork] + pages
       ]_vars
  /\ [][ (pc = "next" /\ pc' = "loop") =>
            /\ pages >= 1
            /\ index' = index + 1
            /\ last_status' = "running"
            /\ dork_page_offset'[Dork] = dork_page_offset[Dork] + pages
       ]_vars
  /\ [][ (pc = "next" /\ pc' = "prompt") =>
            /\ pages >= 1
            /\ last_status' = "captcha"
            /\ index' = index
            /\ browser' = browser
            /\ dork_page_offset'[Dork] = dork_page_offset[Dork] + pages
       ]_vars
  /\ [](pc \in {"crawl", "next"} =>
          pages = at(last_reported, Dork) - dork_page_offset[Dork])

\* a resumed crawl has processed pages 1 and 2 and returned ("captcha", 2)
\* when the click on Next failed on page 2
C17_Witness ==
  /\ pc = "prompt" /\ cmd = "resume" /\ last_status = "captcha"
  /\ browser.kind = "results" /\ browser.page = 2
  /\ index = 0
  /\ dork_page_offset[Dork] = 2
  /\ at(returned_pages, Dork) = 2
  /\ pagesAt(crawled, Dork) = {1, 2}
  /\ faults = 1

\* C18  Every run or resume returns with status captcha or done: a step
\* that leaves the pipeline goes back to the prompt with one of the two
\* statuses, and a return with status done has the index at the number of
\* dorks.
C18_InvocationReturns ==
  /\ [][ InPipeline =>
           \/ InPipeline'
           \/ pc' = "prompt" /\ last_status' \in {"captcha", "done"} ]_vars
  /\ [][ (InPipeline /\ pc' = "prompt" /\ last_status' = "done") =>
           index' = Len(dorks) ]_vars

\* C19  Between commands, status idle means index 0 and five empty
\* collections; the status becomes idle by a clear only, so it is idle only
\* from the start or from a clear on, with no run and no crawled page in
\* between; and the
\* status is never idle while a run or resume is under way or returns.
C19_IdleMeansEmpty ==
  /\ []((pc = "prompt" /\ last_status = "idle") =>
          /\ index = 0
          /\ global_seen = {}
          /\ per_dork_urls = EmptyDict
          /\ per_dork_seen = EmptyDict
          /\ url_to_dorks = EmptyDict
          /\ dork_page_offset = EmptyDict
          /\ cmd # "run"
          /\ merged = {}
          /\ returned_pages = EmptyDict
          /\ done_returns = 0)
  /\ [][ (last_status' = "idle" /\ last_status # "idle") => Clear ]_vars
  /\ [](InPipeline => last_status # "idle")
  /\ [][ InPipeline => last_status' # "idle" ]_vars

\* the status is idle again after a clear that followed an interrupted crawl
C19_Witness ==
  /\ pc = "prompt" /\ last_status = "idle"
  /\ cmd = "clear"
  /\ faults = 1
  /\ browser.kind = "captcha"

\* C20  (as stated) In every state the three per-dork maps have the same
\* keys, every key is a dork at a position up to the index, and a dork with
\* URLs has an offset of at least 1.
C20_KeysAndOffsets ==
  /\ DOMAIN per_dork_urls = DOMAIN per_dork_seen
  /\ DOMAIN per_dork_urls = DOMAIN dork_page_offset
  /\ \A d \in DOMAIN per_dork_urls :
        /\ \E i \in 1..Len(dorks) : dorks[i] = d /\ i - 1 <= index
        /\ per_dork_urls[d] # << >> => dork_page_offset[d] >= 1

\* C20  (amended) In every state the three per-dork maps have the same
\* keys and every key is a dork at a position up to the index; a dork with
\* URLs has an offset of at least 1 between commands, and while its crawl
\* is under way the offset and the crawl's own page count together are at
\* least 1.
C20_KeysAndOffsetsAtReturn ==
  /\ DOMAIN per_dork_urls = DOMAIN per_dork_seen
  /\ DOMAIN per_dork_urls = DOMAIN dork_page_offset
  /\ \A d \in DOMAIN per_dork_urls :
        /\ \E i \in 1..Len(dorks) : dorks[i] = d /\ i - 1 <= index
        /\ per_dork_urls[d] # << >> =>
             dork_page_offset[d]
               + (IF pc \in {"crawl", "next"} /\ d = Dork THEN pages ELSE 0)
             >= 1
  /\ pc = "prompt" =>
       \A d \in DOMAIN per_dork_urls :
          per_dork_urls[d] # << >> => dork_page_offset[d] >= 1

\* the first page of a dork has been merged and the crawl has not returned:
\* the dork has URLs and its offset is still 0
C20_Witness ==
  /\ pc = "next" /\ pages = 1
  /\ per_dork_urls[Dork] # << >>
  /\ dork_page_offset[Dork] = 0

====
